---- MODULE Spec2Model ----
(***************************************************************************)
(* The drawbridge synchronization relay (server/index.js), together with   *)
(* the part of the interactive client (src/App.jsx) that talks to it.      *)
(*                                                                         *)
(* Every handler of the relay runs to completion on Node's single thread,  *)
(* so each handler is one action.  Time, message transport, the file       *)
(* watcher and the browser's asynchronous rendering are the environment.   *)
(***************************************************************************)
EXTENDS Integers, Sequences, FiniteSets, TLC

VARIABLES
    file,                  \* content of CANVAS_FILE
    fileChanged,           \* chokidar has a "change" event to deliver
    now,                   \* Date.now()
    lastWriteFromClient,   \* server/index.js: let lastWriteFromClient
    pendingExportResolve,  \* 0 = null, k = the closure made for export caller k
    timers,                \* export callers whose setTimeout is armed
    nextCaller,            \* the next GET /api/export-png is caller nextCaller
    res,                   \* res[k]: what was written to export caller k's response
    reply,                 \* response of the request/response call just handled
    clients,               \* wss.clients
    readyState,            \* readyState[s] of the socket of session s
    inbox,                 \* inbox[s]: relay -> session messages in flight
    outbox,                \* outbox[s]: session -> relay messages in flight (at most one:
                           \* sendUpdate is debounced, a message is in flight for far less)
    scene,                 \* scene[s]: elements held by the Excalidraw of session s
    lastRemoteFingerprint, \* App.jsx: lastRemoteFingerprint.current, per session
    incoming,              \* incoming[s]: the elements lastRemoteFingerprint[s] was
                           \* computed from (ws.onmessage's const incoming); kept for
                           \* the properties only, no action reads it
    debounce,              \* debounce[s]: sendUpdate's timer is armed at session s
    args,                  \* args[s]: the elements the armed timer will call the body
                           \* of sendUpdate with (the debounce helper's ...args);
                           \* << >> while no timer is armed
    jobs,                  \* handleExportRequest calls in progress: <<session, caller>>
    cli                    \* cli[p]: where run p of cli/index.js stands, and what it holds

vars == <<file, fileChanged, now, lastWriteFromClient, pendingExportResolve, timers,
          nextCaller, res, reply, clients, readyState, inbox, outbox, scene,
          lastRemoteFingerprint, incoming, debounce, args, jobs, cli>>

-----------------------------------------------------------------------------
(* Bounds of the model. *)

MaxExports == 2     \* export callers over a run
MaxInbox == 1       \* relay -> session messages in flight, per session
MaxQueue == 2       \* the same, where what matters is the order of the messages
MaxTicks == 1       \* clock ticks over a run
MaxVersion == 1     \* the highest element version a writer of the model produces
MaxLen == 2         \* the longest scene given to sceneFingerprint as an input, and
                    \* the longest canvas add and merge produce

Sessions == {"s1", "s2"}
Procs == {"p1", "p2"}   \* runs of the command-line tool that may be in progress at once
Callers == 1..MaxExports
NoSocket == "null"  \* broadcast(message, null)

-----------------------------------------------------------------------------
(* Documents. *)

Element(i, v, d) == [id |-> i, version |-> v, isDeleted |-> d]

DocOf(els) == [type |-> "excalidraw", version |-> 2, elements |-> els]

\* server/index.js: DEFAULT_CANVAS, parsed
DEFAULT_CANVAS == DocOf(<< >>)

\* the documents the writers of the model submit: empty, or element "a" at some version
InputDocs == {DEFAULT_CANVAS} \cup {DocOf(<<Element("a", v, FALSE)>>) : v \in 1..MaxVersion}

\* an element that has no version field
ElementNoVersion(i, d) == [id |-> i, isDeleted |-> d]

\* the elements a scene given to sceneFingerprint is made of: two ids, deleted
\* or not, without a version or at a version up to one above MaxVersion
FpElements ==
    {Element(i, v, d) : i \in {"a", "b"}, v \in 0..(MaxVersion + 1), d \in BOOLEAN}
    \cup {ElementNoVersion(i, d) : i \in {"a", "b"}, d \in BOOLEAN}

\* the scenes a user may have drawn before the session connects
FpInputs == UNION {[1..n -> FpElements] : n \in 0..MaxLen}

\* the scenes the user of the echo claims draws: element "a", live or deleted,
\* alone or followed by a live element "b"
EchoScenes ==
    LET as == {Element("a", v, d) : v \in 1..(MaxVersion + 1), d \in BOOLEAN}
        bs == {Element("b", v, FALSE) : v \in 1..(MaxVersion + 1)}
    IN {<< >>} \cup {<<a>> : a \in as} \cup {<<a, b>> : a \in as, b \in bs}

\* the documents a caller of PUT /api/canvas submits meanwhile: "a" alone, live
EchoDocs ==
    {DEFAULT_CANVAS} \cup {DocOf(<<Element("a", v, FALSE)>>) : v \in 1..(MaxVersion + 1)}

\* a message's data when the message carries none
Undefined == [undefined |-> TRUE]

\* JSON.stringify(data, null, 2): text that parses back to data; undefined for undefined
Stringify(data) == IF data = Undefined THEN Undefined ELSE [kind |-> "json", value |-> data]

Garbage == [kind |-> "garbage"]

\* JSON.parse succeeds on text
Parses(text) == text.kind = "json"

\* JSON.parse(text) where it succeeds
Parse(text) == text.value

\* the text a caller types for value: JSON.parse gives value back
Json(value) == [kind |-> "json", value |-> value]

FileContents == {Stringify(d) : d \in InputDocs} \cup {Garbage}

\* the canvas file does not exist: readFileSync throws
Missing == [kind |-> "missing"]

\* a document of another schema version than the one DEFAULT_CANVAS has
WrongSchema == [type |-> "excalidraw", version |-> 1, elements |-> << >>]

\* what another process may leave at the path of the canvas file
LoadContents == FileContents \cup {Stringify(WrongSchema)}

\* what the canvas file holds once the relay has started: the default the relay
\* wrote because there was no file, or what the file held already (a document
\* with elements, text that does not parse, a document of another schema)
StartFiles ==
    {Stringify(DEFAULT_CANVAS), Stringify(DocOf(<<Element("a", 1, FALSE)>>)), Garbage,
     Stringify(WrongSchema)}

\* server/index.js: readCanvas
readCanvas == IF Parses(file) THEN Parse(file) ELSE DEFAULT_CANVAS

-----------------------------------------------------------------------------
(* Time. *)

DEBOUNCE_MS == 300
WatcherSlack == 200  \* the "+ 200" of the watcher's test
TickMs == 500        \* the clock advances in steps of TickMs
StartTime == 1000    \* Date.now() when the relay starts

\* the watcher's test: Date.now() - lastWriteFromClient < DEBOUNCE_MS + 200
WithinQuietWindow == now - lastWriteFromClient < DEBOUNCE_MS + WatcherSlack

-----------------------------------------------------------------------------
(* src/App.jsx: sceneFingerprint.  The string `${count}:${vSum}` is the pair. *)

\* the value undefined where a sequence of elements is expected
NoElements == [i \in {0} |-> 0]

\* el.version || 0
versionOr0(el) == IF "version" \in DOMAIN el THEN el.version ELSE 0

RECURSIVE fpCount(_), fpSumAll(_), fpSum(_)
fpCount(elements) ==
    IF elements = << >> THEN 0
    ELSE (IF Head(elements).isDeleted THEN 0 ELSE 1) + fpCount(Tail(elements))

\* vSum, had the loop added the versions of deleted elements too
fpSumAll(elements) ==
    IF elements = << >> THEN 0
    ELSE versionOr0(Head(elements)) + fpSumAll(Tail(elements))

fpSum(elements) ==
    IF elements = << >> THEN 0
    ELSE (IF Head(elements).isDeleted THEN 0 ELSE versionOr0(Head(elements)))
         + fpSum(Tail(elements))

sceneFingerprint(elements) ==
    IF elements = NoElements \/ Len(elements) = 0 THEN <<0, 0>>
    ELSE <<fpCount(elements), fpSum(elements)>>

-----------------------------------------------------------------------------
(* Messages. *)

\* JSON.stringify({ type: "scene-update", data })
SceneUpdate(data) == Stringify([type |-> "scene-update", data |-> data])

\* JSON.stringify({ type: "export-request" }).  The field "for" is not in the
\* program's message: it records which export caller's request caused the
\* broadcast, and no handler's behaviour depends on it.
ExportRequest(k) == Stringify([type |-> "export-request", for |-> k])

\* msg.data, undefined when the message has no such field
DataOf(msg) == IF "data" \in DOMAIN msg THEN msg.data ELSE Undefined

\* the PNG rendered by session s on the export-request caused by caller k
Png(s, k) == [by |-> s, for |-> k]

\* what a client other than the App may put on its socket
StrayRaws == {Garbage, Stringify([type |-> "scene-update"]), Stringify([type |-> "ping"])}

\* reply when the step just taken answered no request/response call; "to" names
\* the route a reply answers
NoReply == [to |-> "none", status |-> 0]

-----------------------------------------------------------------------------
(* cli/index.js: one run of the tool is one command. *)

\* no run p is in progress
Idle == [pc |-> "idle"]

\* process.exit(code), or main() returning (code 0)
Exited(code) == [pc |-> "exit", code |-> code]

\* run p holds the canvas it read and is about to go on with command cmd
Loaded(cmd, canvas) == [pc |-> "loaded", cmd |-> cmd, canvas |-> canvas]

\* the ids given on the command line: "a" is the element the writers of the
\* model draw, no writer draws "zz"
CliIds == {"a", "zz"}

\* randomId(): the ids it returns in the model, none of them an id a writer
\* gives; two calls may return different ids or the same one
RandomIds == {"r1", "r2"}

\* the drawing shortcuts: draw-rect, draw-ellipse, draw-text, draw-diamond,
\* draw-arrow, draw-line
DrawNames ==
    {"draw-rect", "draw-ellipse", "draw-text", "draw-diamond", "draw-arrow", "draw-line"}

\* the commands of the model: write <json>, update <id> <json>, delete <id>...
\* and clear
CliCommands ==
    {[name |-> "write", json |-> text] : text \in FileContents}
    \cup {[name |-> "update", id |-> i, json |-> text] :
             i \in CliIds, text \in {Stringify([isDeleted |-> FALSE]), Garbage}}
    \cup {[name |-> "delete", ids |-> I] : I \in (SUBSET CliIds) \ {{}}}
    \cup {[name |-> "clear"]}

\* the commands of two writers that add to the canvas at the same time:
\* add <json> and merge <json>, of elements "b" and "c", add of an element that
\* has no id, and draw-rect
RaceCommands ==
    {[name |-> "add", json |-> Json(<<[type |-> "rectangle", id |-> i]>>)] :
        i \in {"b", "c"}}
    \cup {[name |-> "merge", json |-> Json(<<[type |-> "rectangle", id |-> "b"]>>)],
          [name |-> "merge",
           json |-> Json(<<[type |-> "rectangle", id |-> "c", version |-> 2]>>)],
          [name |-> "add", json |-> Json(<<[type |-> "rectangle"]>>)],
          [name |-> "draw-rect"]}

\* the canvases a writer of the editing commands starts from: element "a" live,
\* deleted or without a version, alone or followed by a live element "b"
EditDocs ==
    LET as == {Element("a", 1, FALSE), Element("a", 1, TRUE), ElementNoVersion("a", FALSE)}
    IN {DocOf(<<a>>) : a \in as} \cup {DocOf(<<a, Element("b", 1, FALSE)>>) : a \in as}

\* the patches given to update: one that touches neither version nor isDeleted,
\* one with a version of its own, one that deletes
EditPatches == {[locked |-> TRUE], [version |-> 1], [isDeleted |-> TRUE]}

\* the editing commands of one writer: write, update, delete, add, merge, clear
\* and read-elements
EditCommands ==
    {[name |-> "write", json |-> Stringify(d)] : d \in EditDocs}
    \cup {[name |-> "update", id |-> "a", json |-> Json(u)] : u \in EditPatches}
    \cup {[name |-> "delete", ids |-> I] : I \in (SUBSET {"a", "b"}) \ {{}}}
    \cup {[name |-> "add", json |-> Json(<<[type |-> "rectangle", id |-> "b"]>>)],
          [name |-> "merge", json |-> Json(<<[type |-> "rectangle", id |-> "a"]>>)],
          [name |-> "clear"],
          [name |-> "read-elements"]}

\* the commands of one writer who draws and erases: draw-rect and draw-text,
\* add of element "b", add and merge of an element that has no id, delete of the
\* ids the writers give and of an id the tool drew, clear and read-elements
SketchCommands ==
    {[name |-> "draw-rect"], [name |-> "draw-text"],
     [name |-> "add", json |-> Json(<<[type |-> "rectangle", id |-> "b"]>>)],
     [name |-> "add", json |-> Json(<<[type |-> "rectangle"]>>)],
     [name |-> "merge", json |-> Json(<<[type |-> "rectangle"]>>)],
     [name |-> "clear"],
     [name |-> "read-elements"]}
    \cup {[name |-> "delete", ids |-> I] : I \in ((SUBSET {"a", "b"}) \ {{}}) \cup {{"r1"}}}

\* { ...el, ...updates }
Spread(el, updates) ==
    [f \in DOMAIN el \cup DOMAIN updates |-> IF f \in DOMAIN updates THEN updates[f] ELSE el[f]]

\* elements.findIndex((e) => e.id === id), counted from 1; 0 stands for -1
findIndex(elements, id) ==
    IF \E i \in DOMAIN elements : elements[i].id = id
    THEN CHOOSE i \in DOMAIN elements :
            /\ elements[i].id = id
            /\ \A j \in DOMAIN elements : elements[j].id = id => i <= j
    ELSE 0

\* case "update", had the version of the patch been kept
updateElementPatchWins(canvas, idx, updates) ==
    [canvas EXCEPT !.elements[idx] =
        Spread(Spread(@, [version |-> versionOr0(@) + 1]), updates)]

\* case "update": the canvas after canvas.elements[idx] is replaced.  The fields
\* versionNonce and updated are not in the model's elements.
updateElement(canvas, idx, updates) ==
    [canvas EXCEPT !.elements[idx] =
        Spread(Spread(@, updates), [version |-> versionOr0(@) + 1])]

\* case "delete", had it removed the elements
deleteElementsHard(canvas, idsToDelete) ==
    [canvas EXCEPT !.elements = SelectSeq(@, LAMBDA el : el.id \notin idsToDelete)]

\* case "delete": the canvas after the loop over canvas.elements
deleteElements(canvas, idsToDelete) ==
    [canvas EXCEPT !.elements =
        [i \in DOMAIN @ |->
            IF @[i].id \in idsToDelete
            THEN Spread(@[i], [isDeleted |-> TRUE, version |-> versionOr0(@[i]) + 1])
            ELSE @[i]]]

\* case "clear": the canvas after canvas.elements = []
clearElements(canvas) == [canvas EXCEPT !.elements = << >>]

\* bound of the model: the tool raises no version beyond MaxVersion + 1
InBounds(canvas) ==
    \A i \in DOMAIN canvas.elements : versionOr0(canvas.elements[i]) <= MaxVersion + 1

\* main() returning after console.log(out)
ExitedWith(code, out) == [pc |-> "exit", code |-> code, out |-> out]

\* case "read-elements": (canvas.elements || []).filter((e) => !e.isDeleted)
activeElements(canvas) == SelectSeq(canvas.elements, LAMBDA e : ~e.isDeleted)

-----------------------------------------------------------------------------
(* lib/elements.js: normalize and mergeElements.  Of the fields baseElement   *)
(* fills in, the model keeps id, version and isDeleted.                       *)

\* an element as a caller of add or merge writes it: a type and an id, the rest
\* left to normalize
Partial(i) == [type |-> "rectangle", id |-> i]

\* the same with a version of the caller's
PartialAt(i, v) == [type |-> "rectangle", id |-> i, version |-> v]

\* an element that has an id and nothing else
Bare(i) == [id |-> i]

\* an element as README has it for add: a type and no id
Typed == [type |-> "rectangle"]

\* the ids randomId() may return in the calls made for a list of elements, one
\* call an element
Draws(elements) == [DOMAIN elements -> RandomIds]

\* baseElement(), where its call of randomId() returned id
baseElement(id) == [id |-> id, version |-> 1, isDeleted |-> FALSE]

\* the type each factory sets: rect, ellipse, text, diamond, arrow, line
typeOf(name) ==
    CASE name = "draw-rect" -> "rectangle"
      [] name = "draw-ellipse" -> "ellipse"
      [] name = "draw-text" -> "text"
      [] name = "draw-diamond" -> "diamond"
      [] name = "draw-arrow" -> "arrow"
      [] name = "draw-line" -> "line"

\* the element the factory of draw command name returns: baseElement({ type, ... }),
\* where randomId() returned id
factory(name, id) == Spread(baseElement(id), [type |-> typeOf(name)])

\* normalize throws "Element must have a 'type' field"
normalizeThrows(partial) == "type" \notin DOMAIN partial

\* normalize: { ...defaults, ...typeDefaults, ...partial }, where the randomId()
\* of defaults = baseElement() returned id
normalize(partial, id) == Spread(baseElement(id), partial)

\* normalizeAll throws when normalize throws on one of the elements
normalizeAllThrows(elements) == \E i \in DOMAIN elements : normalizeThrows(elements[i])

\* elements.map(normalize), where the call for element i drew ids[i]
normalizeAll(elements, ids) == [i \in DOMAIN elements |-> normalize(elements[i], ids[i])]

\* el.id as a key of the Map: undefined when the element has no id
idOf(el) == IF "id" \in DOMAIN el THEN el.id ELSE "undefined"

\* map.set(el.id, el) on a Map held as the sequence of its values in insertion
\* order: a key that is present keeps its place, a new key goes last
mapSet(map, el) ==
    IF \E i \in DOMAIN map : idOf(map[i]) = idOf(el)
    THEN [i \in DOMAIN map |-> IF idOf(map[i]) = idOf(el) THEN el ELSE map[i]]
    ELSE Append(map, el)

RECURSIVE mapSetAll(_, _)
mapSetAll(map, elements) ==
    IF Len(elements) = 0 THEN map
    ELSE mapSetAll(mapSet(map, Head(elements)), Tail(elements))

\* mergeElements normalizes the incoming elements that have no version
mergeNormalized(el, id) == IF "version" \in DOMAIN el THEN el ELSE normalize(el, id)

\* mergeElements throws when it normalizes an element that has no type
mergeThrows(incomingEls) ==
    \E i \in DOMAIN incomingEls :
        "version" \notin DOMAIN incomingEls[i] /\ normalizeThrows(incomingEls[i])

\* mergeElements, had it kept the element of the higher version
mergeElementsNewest(existing, incomingEls, ids) ==
    LET keep(map, el) ==
            IF \E i \in DOMAIN map :
                  idOf(map[i]) = idOf(el) /\ versionOr0(map[i]) > versionOr0(el)
            THEN map ELSE mapSet(map, el)
        step[n \in 0..Len(incomingEls)] ==
            IF n = 0 THEN mapSetAll(<< >>, existing)
            ELSE keep(step[n - 1], mergeNormalized(incomingEls[n], ids[n]))
    IN step[Len(incomingEls)]

\* mergeElements(existing, incomingEls) where it does not throw; the normalize
\* of incoming element i drew ids[i]
mergeElements(existing, incomingEls, ids) ==
    mapSetAll(mapSetAll(<< >>, existing),
              [i \in DOMAIN incomingEls |-> mergeNormalized(incomingEls[i], ids[i])])

\* cli/index.js addElements: the canvas after canvas.elements is reassigned
addElements(canvas, newElements, ids) ==
    [canvas EXCEPT !.elements = @ \o normalizeAll(newElements, ids)]

\* cli/index.js mergeIncoming: the canvas after canvas.elements is reassigned.
\* The elements normalizeAll returns have a version: mergeElements normalizes
\* none of them again and draws no id of its own.
mergeIncoming(canvas, newElements, ids) ==
    [canvas EXCEPT !.elements = mergeElements(@, normalizeAll(newElements, ids), ids)]

\* the elements run cmd gives to addElements or mergeIncoming: the JSON input,
\* or the element its factory made
newElementsOf(cmd) == IF cmd.name \in DrawNames THEN <<cmd.el>> ELSE Parse(cmd.json)

\* the element lists a program that imports mergeElements passes as existing:
\* stored elements "a" and "b", an id possibly twice
MergeExisting ==
    LET stored == {Element(i, v, FALSE) : i \in {"a", "b"}, v \in 1..(MaxVersion + 1)}
    IN UNION {[1..n -> stored] : n \in 0..MaxLen}

\* the lists it passes as incoming: elements with a version (the lowest or the
\* highest), with a type and no version, with an id only, or with a type only
MergeIncoming ==
    LET given == {Element(i, v, FALSE) : i \in {"a", "b"}, v \in {1, MaxVersion + 1}}
                 \cup {Partial(i) : i \in {"a", "b"}} \cup {Bare(i) : i \in {"a", "b"}}
                 \cup {Typed}
    IN UNION {[1..n -> given] : n \in 0..MaxLen}

\* the program holds what mergeElements(existing, incoming) returned
Merged(existing, incomingEls, out) ==
    [pc |-> "merged", existing |-> existing, incoming |-> incomingEls, out |-> out]

\* mergeElements(existing, incoming) threw
Threw(existing, incomingEls) ==
    [pc |-> "threw", existing |-> existing, incoming |-> incomingEls]

-----------------------------------------------------------------------------
(* server/index.js: broadcast.  The value is the new content of every inbox. *)

\* broadcast, without its test of readyState
broadcastNoReadyCheck(message, excludeSocket) ==
    [client \in Sessions |->
        IF client \in clients /\ client # excludeSocket
        THEN Append(inbox[client], message)
        ELSE inbox[client]]

broadcast(message, excludeSocket) ==
    [client \in Sessions |->
        IF client \in clients /\ client # excludeSocket /\ readyState[client] = 1
        THEN Append(inbox[client], message)
        ELSE inbox[client]]

\* bound of the model: a handler that broadcasts runs when every inbox has room
Room == \A s \in Sessions : Len(inbox[s]) < MaxInbox

\* the same bound where messages queue up behind one another
Queue == \A s \in Sessions : Len(inbox[s]) < MaxQueue

-----------------------------------------------------------------------------
(* server/index.js: writeCanvas.  writeFileSync throws on JSON.stringify's     *)
(* undefined, after lastWriteFromClient was set and before the file is opened. *)

writeThrows(data) == Stringify(data) = Undefined

writeCanvas(data) ==
    /\ lastWriteFromClient' = now
    /\ IF writeThrows(data)
       THEN UNCHANGED <<file, fileChanged>>
       ELSE /\ file' = Stringify(data)
            /\ fileChanged' = TRUE

-----------------------------------------------------------------------------
Init ==
    /\ file \in StartFiles
    /\ fileChanged = FALSE
    /\ now = StartTime
    /\ lastWriteFromClient = 0
    /\ pendingExportResolve = 0
    /\ timers = {}
    /\ nextCaller = 1
    /\ res = [k \in Callers |-> << >>]
    /\ reply = NoReply
    /\ clients = {}
    /\ readyState = [s \in Sessions |-> 3]
    /\ inbox = [s \in Sessions |-> << >>]
    /\ outbox = [s \in Sessions |-> << >>]
    /\ scene = [s \in Sessions |-> << >>]
    /\ lastRemoteFingerprint = [s \in Sessions |-> <<0, 0>>]
    /\ incoming = [s \in Sessions |-> << >>]
    /\ debounce = [s \in Sessions |-> FALSE]
    /\ args = [s \in Sessions |-> << >>]
    /\ jobs = {}
    /\ cli = [p \in Procs |-> Idle]

docVars == <<file, fileChanged, lastWriteFromClient>>
exportVars == <<pendingExportResolve, timers, nextCaller, res>>
socketVars == <<clients, readyState>>
appVars == <<scene, lastRemoteFingerprint, incoming, debounce, args>>

-----------------------------------------------------------------------------
(* The relay's request/response handlers. *)

\* app.get("/api/canvas"): what the handler does, whoever the caller is
getCanvasRoute ==
    /\ reply' = [to |-> "GET /api/canvas", status |-> 200, body |-> readCanvas]
    /\ UNCHANGED <<docVars, now, exportVars, socketVars, inbox, outbox, appVars, jobs>>

\* app.get("/api/canvas"), called by an HTTP client that is no run of the tool
GetCanvas ==
    /\ getCanvasRoute
    /\ UNCHANGED cli

\* app.put("/api/canvas"), had it refused to save while an export is pending
putCanvasRouteWhenIdle(body) ==
    IF pendingExportResolve # 0
    THEN /\ reply' = [to |-> "PUT /api/canvas", status |-> 409]
         /\ UNCHANGED <<docVars, now, exportVars, socketVars, inbox, outbox, appVars, jobs>>
    ELSE /\ Room
         /\ writeCanvas(body)
         /\ inbox' = broadcast(SceneUpdate(body), NoSocket)
         /\ reply' = [to |-> "PUT /api/canvas", status |-> 200, body |-> [ok |-> TRUE]]
         /\ UNCHANGED <<now, exportVars, socketVars, outbox, appVars, jobs>>

\* app.put("/api/canvas"), req.body as express.json parsed it: what the handler
\* does, whoever the caller is
putCanvasRoute(body) ==
    /\ Room
    /\ writeCanvas(body)
    /\ inbox' = broadcast(SceneUpdate(body), NoSocket)
    /\ reply' = [to |-> "PUT /api/canvas", status |-> 200, body |-> [ok |-> TRUE]]
    /\ UNCHANGED <<now, exportVars, socketVars, outbox, appVars, jobs>>

\* app.put("/api/canvas"), had it broadcast the canvas it read before the write
PutCanvasStale(body) ==
    /\ Room
    /\ writeCanvas(body)
    /\ inbox' = broadcast(SceneUpdate(readCanvas), NoSocket)
    /\ reply' = [to |-> "PUT /api/canvas", status |-> 200, body |-> [ok |-> TRUE]]
    /\ UNCHANGED <<now, exportVars, socketVars, outbox, appVars, jobs, cli>>

\* app.put("/api/canvas"), called by an HTTP client that is no run of the tool
PutCanvas(body) ==
    /\ putCanvasRoute(body)
    /\ UNCHANGED cli

\* app.put("/api/canvas") called while messages of the relay are still in
\* flight: its broadcast queues up behind them
PutCanvasQueued(body) ==
    /\ Queue
    /\ writeCanvas(body)
    /\ inbox' = broadcast(SceneUpdate(body), NoSocket)
    /\ reply' = [to |-> "PUT /api/canvas", status |-> 200, body |-> [ok |-> TRUE]]
    /\ UNCHANGED <<now, exportVars, socketVars, outbox, appVars, jobs, cli>>

\* PUT /api/canvas with a body that is not JSON: express.json answers 400 and
\* the handler is not called
PutCanvasMalformed ==
    /\ reply' = [to |-> "PUT /api/canvas", status |-> 400]
    /\ UNCHANGED <<docVars, now, exportVars, socketVars, inbox, outbox, appVars, jobs, cli>>

\* resolve, had it written to the response of the latest request
resolveLatest(k, pngBuffer) ==
    /\ timers' = timers \ {k}
    /\ pendingExportResolve' = 0
    /\ res' = [res EXCEPT ![nextCaller - 1] = Append(@, [status |-> 200, body |-> pngBuffer])]

\* resolve, had it left pendingExportResolve set
resolveKeepsSlot(k, pngBuffer) ==
    /\ timers' = timers \ {k}
    /\ UNCHANGED pendingExportResolve
    /\ res' = [res EXCEPT ![k] = Append(@, [status |-> 200, body |-> pngBuffer])]

\* resolve, without its clearTimeout
resolveNoClear(k, pngBuffer) ==
    /\ UNCHANGED timers
    /\ pendingExportResolve' = 0
    /\ res' = [res EXCEPT ![k] = Append(@, [status |-> 200, body |-> pngBuffer])]

\* the closure stored in pendingExportResolve by caller k's request, applied
resolve(k, pngBuffer) ==
    /\ timers' = timers \ {k}
    /\ pendingExportResolve' = 0
    /\ res' = [res EXCEPT ![k] = Append(@, [status |-> 200, body |-> pngBuffer])]

\* app.get("/api/export-png"), without the test of pendingExportResolve
ExportGetNoBusyCheck ==
    /\ nextCaller <= MaxExports
    /\ nextCaller' = nextCaller + 1
    /\ Room
    /\ timers' = timers \cup {nextCaller}
    /\ pendingExportResolve' = nextCaller
    /\ inbox' = broadcast(ExportRequest(nextCaller), NoSocket)
    /\ reply' = NoReply
    /\ UNCHANGED <<docVars, now, res, socketVars, outbox, appVars, jobs, cli>>

\* app.get("/api/export-png"), the request of caller nextCaller
ExportGet ==
    /\ nextCaller <= MaxExports
    /\ nextCaller' = nextCaller + 1
    /\ IF pendingExportResolve # 0
       THEN /\ res' = [res EXCEPT ![nextCaller] = Append(@, [status |-> 409])]
            /\ UNCHANGED <<pendingExportResolve, timers, inbox>>
       ELSE /\ Room
            /\ timers' = timers \cup {nextCaller}
            /\ pendingExportResolve' = nextCaller
            /\ inbox' = broadcast(ExportRequest(nextCaller), NoSocket)
            /\ UNCHANGED res
    /\ reply' = NoReply
    /\ UNCHANGED <<docVars, now, socketVars, outbox, appVars, jobs, cli>>

\* the timer callback, had it answered 504 and left pendingExportResolve set
ExportTimeoutNoReset(k) ==
    /\ k \in timers
    /\ timers' = timers \ {k}
    /\ IF pendingExportResolve # 0
       THEN /\ UNCHANGED pendingExportResolve
            /\ res' = [res EXCEPT ![k] = Append(@, [status |-> 504])]
       ELSE UNCHANGED <<pendingExportResolve, res>>
    /\ reply' = NoReply
    /\ UNCHANGED <<docVars, now, nextCaller, socketVars, inbox, outbox, appVars, jobs,
                   cli>>

\* the callback of caller k's setTimeout
ExportTimeout(k) ==
    /\ k \in timers
    /\ timers' = timers \ {k}
    /\ IF pendingExportResolve # 0
       THEN /\ pendingExportResolve' = 0
            /\ res' = [res EXCEPT ![k] = Append(@, [status |-> 504])]
       ELSE UNCHANGED <<pendingExportResolve, res>>
    /\ reply' = NoReply
    /\ UNCHANGED <<docVars, now, nextCaller, socketVars, inbox, outbox, appVars, jobs,
                   cli>>

\* app.post("/api/export-png"), had it acknowledged a PNG nobody waits for
ExportPostNoCheck(pngBuffer) ==
    /\ IF pendingExportResolve # 0
       THEN resolve(pendingExportResolve, pngBuffer)
       ELSE UNCHANGED <<pendingExportResolve, timers, res>>
    /\ reply' = [to |-> "POST /api/export-png", status |-> 200, body |-> [ok |-> TRUE]]
    /\ UNCHANGED <<docVars, now, nextCaller, socketVars, inbox, outbox, appVars, cli>>

\* app.post("/api/export-png") with body pngBuffer
ExportPost(pngBuffer) ==
    /\ IF pendingExportResolve # 0
       THEN /\ resolve(pendingExportResolve, pngBuffer)
            /\ reply' = [to |-> "POST /api/export-png", status |-> 200,
                         body |-> [ok |-> TRUE]]
       ELSE /\ reply' = [to |-> "POST /api/export-png", status |-> 400]
            /\ UNCHANGED <<pendingExportResolve, timers, res>>
    /\ UNCHANGED <<docVars, now, nextCaller, socketVars, inbox, outbox, appVars, cli>>

-----------------------------------------------------------------------------
(* The relay's socket handlers and the file watcher. *)

\* wss.on("connection"): the socket joins wss.clients, open, and is sent the canvas
Connection(ws) ==
    /\ ws \notin clients
    /\ clients' = clients \cup {ws}
    /\ readyState' = [readyState EXCEPT ![ws] = 1]
    /\ inbox' = [inbox EXCEPT ![ws] = <<SceneUpdate(readCanvas)>>]
    /\ outbox' = [outbox EXCEPT ![ws] = << >>]
    /\ reply' = NoReply
    /\ UNCHANGED <<docVars, now, exportVars, appVars, jobs, cli>>

\* ws.on("message"), had it broadcast to every socket, the sender's too
MessageEchoes(ws) ==
    /\ ws \in clients
    /\ outbox[ws] # << >>
    /\ outbox' = [outbox EXCEPT ![ws] = Tail(@)]
    /\ LET raw == Head(outbox[ws]) IN
       IF Parses(raw) /\ Parse(raw).type = "scene-update"
       THEN /\ Room
            /\ writeCanvas(DataOf(Parse(raw)))
            /\ IF writeThrows(DataOf(Parse(raw)))
               THEN UNCHANGED inbox
               ELSE inbox' = broadcast(raw, NoSocket)
       ELSE UNCHANGED <<docVars, inbox>>
    /\ reply' = NoReply
    /\ UNCHANGED <<now, exportVars, socketVars, appVars, jobs, cli>>

\* ws.on("message") of socket ws, on the oldest message in flight
Message(ws) ==
    /\ ws \in clients
    /\ outbox[ws] # << >>
    /\ outbox' = [outbox EXCEPT ![ws] = Tail(@)]
    /\ LET raw == Head(outbox[ws]) IN
       IF Parses(raw) /\ Parse(raw).type = "scene-update"
       THEN /\ Room
            /\ writeCanvas(DataOf(Parse(raw)))
            /\ IF writeThrows(DataOf(Parse(raw)))
               THEN UNCHANGED inbox
               ELSE inbox' = broadcast(raw, ws)
       ELSE UNCHANGED <<docVars, inbox>>
    /\ reply' = NoReply
    /\ UNCHANGED <<now, exportVars, socketVars, appVars, jobs, cli>>

\* watcher.on("change"), without its test of lastWriteFromClient
WatcherChangeNoDebounce ==
    /\ fileChanged
    /\ fileChanged' = FALSE
    /\ Room
    /\ inbox' = broadcast(SceneUpdate(readCanvas), NoSocket)
    /\ reply' = NoReply
    /\ UNCHANGED <<file, lastWriteFromClient, now, exportVars, socketVars, outbox,
                   appVars, jobs, cli>>

\* watcher.on("change"), had it broadcast without reading the file again
WatcherChangeNoReload ==
    /\ fileChanged
    /\ fileChanged' = FALSE
    /\ IF WithinQuietWindow
       THEN UNCHANGED inbox
       ELSE /\ Room
            /\ inbox' = broadcast(SceneUpdate(DEFAULT_CANVAS), NoSocket)
    /\ reply' = NoReply
    /\ UNCHANGED <<file, lastWriteFromClient, now, exportVars, socketVars, outbox,
                   appVars, jobs, cli>>

\* watcher.on("change")
WatcherChange ==
    /\ fileChanged
    /\ fileChanged' = FALSE
    /\ IF WithinQuietWindow
       THEN UNCHANGED inbox
       ELSE /\ Room
            /\ inbox' = broadcast(SceneUpdate(readCanvas), NoSocket)
    /\ reply' = NoReply
    /\ UNCHANGED <<file, lastWriteFromClient, now, exportVars, socketVars, outbox,
                   appVars, jobs, cli>>

-----------------------------------------------------------------------------
(* The interactive client, src/App.jsx. *)

\* the edits a user makes in Excalidraw: draw element "a", or change it
Edits(elements) ==
    IF elements = << >> THEN {<<Element("a", 1, FALSE)>>}
    ELSE {<<[elements[1] EXCEPT !.version = @ + 1]>>}

\* the user edits the scene; Excalidraw calls onChange, which arms sendUpdate
UserEdit(s) ==
    /\ \E els \in Edits(scene[s]) :
          /\ DocOf(els) \in InputDocs
          /\ scene' = [scene EXCEPT ![s] = els]
          /\ args' = [args EXCEPT ![s] = els]
    /\ debounce' = [debounce EXCEPT ![s] = TRUE]
    /\ reply' = NoReply
    /\ UNCHANGED <<docVars, now, exportVars, socketVars, inbox, outbox,
                   lastRemoteFingerprint, incoming, jobs, cli>>

\* Excalidraw calls onChange with the elements els of session s, changed or not;
\* handleChange passes them to sendUpdate, whose timer is cleared and armed
handleChange(s, els) ==
    /\ scene' = [scene EXCEPT ![s] = els]
    /\ debounce' = [debounce EXCEPT ![s] = TRUE]
    /\ args' = [args EXCEPT ![s] = els]
    /\ reply' = NoReply
    /\ UNCHANGED <<docVars, now, exportVars, socketVars, inbox, outbox,
                   lastRemoteFingerprint, incoming, jobs, cli>>

\* Excalidraw calls onChange with the elements its scene holds, as it does in a
\* later task once ws.onmessage has called updateScene
onChange(s) == handleChange(s, scene[s])

\* ws.onmessage at session s, on the oldest message in flight.  A scene-update:
\* the fingerprint is stored and updateScene called; sendUpdate's timer is left
\* as it is, Excalidraw calls onChange later.
OnMessage(s) ==
    /\ s \in clients
    /\ inbox[s] # << >>
    /\ inbox' = [inbox EXCEPT ![s] = Tail(@)]
    /\ LET msg == Parse(Head(inbox[s])) IN
       IF msg.type = "scene-update"
       THEN /\ lastRemoteFingerprint' =
                  [lastRemoteFingerprint EXCEPT ![s] = sceneFingerprint(msg.data.elements)]
            /\ incoming' = [incoming EXCEPT ![s] = msg.data.elements]
            /\ scene' = [scene EXCEPT ![s] = msg.data.elements]
            /\ UNCHANGED <<debounce, args, jobs>>
       ELSE /\ jobs' = jobs \cup {<<s, msg.for>>}
            /\ UNCHANGED appVars
    /\ reply' = NoReply
    /\ UNCHANGED <<docVars, now, exportVars, socketVars, outbox, cli>>

\* the debounced body of sendUpdate, without its test of lastRemoteFingerprint
sendUpdateNoEchoTest(s) ==
    /\ debounce[s]
    /\ debounce' = [debounce EXCEPT ![s] = FALSE]
    /\ args' = [args EXCEPT ![s] = << >>]
    /\ IF s \notin clients \/ readyState[s] # 1
       THEN UNCHANGED outbox
       ELSE /\ outbox[s] = << >>
            /\ outbox' = [outbox EXCEPT ![s] = Append(@, SceneUpdate(DocOf(args[s])))]
    /\ reply' = NoReply
    /\ UNCHANGED <<docVars, now, exportVars, socketVars, inbox, scene,
                   lastRemoteFingerprint, incoming, jobs, cli>>

\* the timer of sendUpdate fires at session s: the debounced body runs on the
\* elements the last call of sendUpdate was given.  Bound of the model: one
\* report of a session is in flight to the relay at a time.
sendUpdate(s) ==
    /\ debounce[s]
    /\ debounce' = [debounce EXCEPT ![s] = FALSE]
    /\ args' = [args EXCEPT ![s] = << >>]
    /\ IF s \notin clients \/ readyState[s] # 1
       THEN UNCHANGED outbox
       ELSE IF sceneFingerprint(args[s]) = lastRemoteFingerprint[s]
       THEN UNCHANGED outbox
       ELSE /\ outbox[s] = << >>
            /\ outbox' = [outbox EXCEPT ![s] = Append(@, SceneUpdate(DocOf(args[s])))]
    /\ reply' = NoReply
    /\ UNCHANGED <<docVars, now, exportVars, socketVars, inbox, scene,
                   lastRemoteFingerprint, incoming, jobs, cli>>

\* handleExportRequest of session s, started for caller k, reaches its fetch:
\* the relay handles POST /api/export-png
handleExportRequest(s, k) ==
    /\ <<s, k>> \in jobs
    /\ jobs' = jobs \ {<<s, k>>}
    /\ ExportPost(Png(s, k))

\* handleExportRequest of session s fails before the POST (its catch)
ExportFailed(s, k) ==
    /\ <<s, k>> \in jobs
    /\ jobs' = jobs \ {<<s, k>>}
    /\ reply' = NoReply
    /\ UNCHANGED <<docVars, now, exportVars, socketVars, inbox, outbox, appVars, cli>>

-----------------------------------------------------------------------------
(* The command-line tool, cli/index.js.  A run is the steps of main() between *)
(* its requests to the relay; each request is handled by the relay in the     *)
(* step that makes it.                                                        *)

\* a step of run p that sends no request: only cli[p] changes
cliLocal ==
    /\ reply' = NoReply
    /\ UNCHANGED <<docVars, now, exportVars, socketVars, inbox, outbox, appVars, jobs>>

\* main() of run p with command cmd, up to the end of its first request.
\* write: getJsonInput, then writeCanvas(data), the PUT.  add, merge: getJsonInput,
\* then readCanvas(), the GET.  update: JSON.parse of the updates, then
\* readCanvas().  delete, clear: readCanvas().  read-elements: readCanvas(), the
\* active elements printed.  draw-*: the factory makes the element under a
\* random id, then addElements calls readCanvas().  A JSON.parse that throws
\* ends in main().catch: process.exit(1).
CliStart(p, cmd) ==
    /\ cli[p].pc \in {"idle", "exit"}
    /\ IF cmd.name = "write"
       THEN IF Parses(cmd.json)
            THEN /\ putCanvasRoute(Parse(cmd.json))
                 /\ cli' = [cli EXCEPT ![p] = Exited(0)]
            ELSE /\ cliLocal
                 /\ cli' = [cli EXCEPT ![p] = Exited(1)]
       ELSE IF cmd.name \in {"update", "add", "merge"} /\ ~Parses(cmd.json)
            THEN /\ cliLocal
                 /\ cli' = [cli EXCEPT ![p] = Exited(1)]
       ELSE IF cmd.name = "read-elements"
            THEN /\ getCanvasRoute
                 /\ cli' = [cli EXCEPT ![p] = ExitedWith(0, activeElements(readCanvas))]
       ELSE IF cmd.name \in DrawNames
            THEN /\ getCanvasRoute
                 /\ \E id \in RandomIds :
                       cli' = [cli EXCEPT ![p] =
                                 Loaded(Spread(cmd, [el |-> factory(cmd.name, id)]), readCanvas)]
            ELSE /\ getCanvasRoute
                 /\ cli' = [cli EXCEPT ![p] = Loaded(cmd, readCanvas)]

\* main() of run p from the canvas it read to its exit, had it read the canvas
\* again before its write
CliFinishRereads(p) ==
    /\ cli[p].pc = "loaded"
    /\ cli[p].cmd.name \in {"add", "merge"}
    /\ ~normalizeAllThrows(Parse(cli[p].cmd.json))
    /\ \E ids \in Draws(Parse(cli[p].cmd.json)) :
          LET cmd == cli[p].cmd
              doc == IF cmd.name = "add"
                     THEN addElements(readCanvas, Parse(cmd.json), ids)
                     ELSE mergeIncoming(readCanvas, Parse(cmd.json), ids)
          IN /\ InBounds(doc)
             /\ Len(doc.elements) <= MaxLen
             /\ putCanvasRoute(doc)
             /\ cli' = [cli EXCEPT ![p] = Exited(0)]

\* main() of run p from the canvas it read to its exit.  update: findIndex,
\* "not found" and process.exit(1), or the element replaced and writeCanvas.
\* delete: the loop, then writeCanvas, whatever the count.  add, merge, draw-*:
\* normalizeAll, which draws an id for every element and may throw;
\* canvas.elements reassigned, then writeCanvas.  clear: canvas.elements
\* emptied, then writeCanvas.
CliFinish(p) ==
    /\ cli[p].pc = "loaded"
    /\ LET cmd == cli[p].cmd
           canvas == cli[p].canvas
       IN IF cmd.name = "update"
          THEN LET idx == findIndex(canvas.elements, cmd.id) IN
               IF idx = 0
               THEN /\ cliLocal
                    /\ cli' = [cli EXCEPT ![p] = Exited(1)]
               ELSE /\ InBounds(updateElement(canvas, idx, Parse(cmd.json)))
                    /\ putCanvasRoute(updateElement(canvas, idx, Parse(cmd.json)))
                    /\ cli' = [cli EXCEPT ![p] = Exited(0)]
          ELSE IF cmd.name \in {"add", "merge"} \cup DrawNames
          THEN IF normalizeAllThrows(newElementsOf(cmd))
               THEN /\ cliLocal
                    /\ cli' = [cli EXCEPT ![p] = Exited(1)]
               ELSE \E ids \in Draws(newElementsOf(cmd)) :
                       LET doc == IF cmd.name = "merge"
                                  THEN mergeIncoming(canvas, newElementsOf(cmd), ids)
                                  ELSE addElements(canvas, newElementsOf(cmd), ids)
                       IN /\ InBounds(doc)
                          /\ Len(doc.elements) <= MaxLen
                          /\ putCanvasRoute(doc)
                          /\ cli' = [cli EXCEPT ![p] = Exited(0)]
          ELSE IF cmd.name = "clear"
          THEN /\ putCanvasRoute(clearElements(canvas))
               /\ cli' = [cli EXCEPT ![p] = Exited(0)]
          ELSE /\ InBounds(deleteElements(canvas, cmd.ids))
               /\ putCanvasRoute(deleteElements(canvas, cmd.ids))
               /\ cli' = [cli EXCEPT ![p] = Exited(0)]

\* a program p that imports lib/elements.js calls mergeElements(existing, incoming),
\* once, on lists of its own
callMergeElements(p) ==
    /\ cli[p] = Idle
    /\ \E existing \in MergeExisting, incomingEls \in MergeIncoming :
          \E ids \in Draws(incomingEls) :
             cli' = [cli EXCEPT ![p] =
                       IF mergeThrows(incomingEls)
                       THEN Threw(existing, incomingEls)
                       ELSE Merged(existing, incomingEls,
                                   mergeElements(existing, incomingEls, ids))]
    /\ cliLocal

-----------------------------------------------------------------------------
(* The environment. *)

\* an HTTP client that is no session POSTs a PNG
StrayPost ==
    /\ ExportPost(Png("stray", 0))
    /\ UNCHANGED jobs

\* a socket client other than the App sends raw
StrayMessage(ws, raw) ==
    /\ ws \in clients
    /\ outbox[ws] = << >>
    /\ outbox' = [outbox EXCEPT ![ws] = Append(@, raw)]
    /\ reply' = NoReply
    /\ UNCHANGED <<docVars, now, exportVars, socketVars, inbox, appVars, jobs, cli>>

\* the socket of session s starts closing: it stays in wss.clients, not open
Closing(s) ==
    /\ s \in clients
    /\ readyState[s] = 1
    /\ readyState' = [readyState EXCEPT ![s] = 2]
    /\ reply' = NoReply
    /\ UNCHANGED <<docVars, now, exportVars, clients, inbox, outbox, appVars, jobs, cli>>

\* the socket of session s is closed and leaves wss.clients
Close(s) ==
    /\ s \in clients
    /\ clients' = clients \ {s}
    /\ readyState' = [readyState EXCEPT ![s] = 3]
    /\ inbox' = [inbox EXCEPT ![s] = << >>]
    /\ outbox' = [outbox EXCEPT ![s] = << >>]
    /\ reply' = NoReply
    /\ UNCHANGED <<docVars, now, exportVars, appVars, jobs, cli>>

\* a process other than the relay writes the canvas file
ExternalWrite(text) ==
    /\ file' = text
    /\ fileChanged' = TRUE
    /\ reply' = NoReply
    /\ UNCHANGED <<lastWriteFromClient, now, exportVars, socketVars, inbox, outbox,
                   appVars, jobs, cli>>

\* a process other than the relay removes the canvas file; the watcher listens
\* to "change" only
ExternalUnlink ==
    /\ file # Missing
    /\ file' = Missing
    /\ reply' = NoReply
    /\ UNCHANGED <<fileChanged, lastWriteFromClient, now, exportVars, socketVars, inbox,
                   outbox, appVars, jobs, cli>>

\* time passes
Tick ==
    /\ now + TickMs <= StartTime + MaxTicks * TickMs
    /\ now' = now + TickMs
    /\ reply' = NoReply
    /\ UNCHANGED <<docVars, exportVars, socketVars, inbox, outbox, appVars, jobs, cli>>

-----------------------------------------------------------------------------
Next ==
    \/ GetCanvas
    \/ \E body \in InputDocs : PutCanvas(body)
    \/ ExportGet
    \/ \E k \in Callers : ExportTimeout(k)
    \/ \E s \in Sessions : Connection(s)
    \/ \E s \in Sessions : Message(s)
    \/ WatcherChange
    \/ \E s \in Sessions : UserEdit(s)
    \/ \E s \in Sessions : OnMessage(s)
    \/ \E s \in Sessions : sendUpdate(s)
    \/ \E s \in Sessions : onChange(s)
    \/ \E s \in Sessions, k \in Callers : handleExportRequest(s, k)
    \/ \E s \in Sessions, k \in Callers : ExportFailed(s, k)
    \/ StrayPost
    \/ \E s \in Sessions, raw \in StrayRaws : StrayMessage(s, raw)
    \/ \E s \in Sessions : Closing(s)
    \/ \E s \in Sessions : Close(s)
    \/ \E text \in FileContents : ExternalWrite(text)
    \/ Tick

Spec == Init /\ [][Next]_vars

\* the export relay and the sessions, while no document is written
ExportNext ==
    \/ ExportGet
    \/ \E k \in Callers : ExportTimeout(k)
    \/ \E s \in Sessions : Connection(s)
    \/ \E s \in Sessions : OnMessage(s)
    \/ \E s \in Sessions, k \in Callers : handleExportRequest(s, k)
    \/ \E s \in Sessions, k \in Callers : ExportFailed(s, k)
    \/ StrayPost
    \/ \E s \in Sessions : Closing(s)
    \/ \E s \in Sessions : Close(s)

\* the relay started where there was no canvas file, and wrote the default one
FreshStart == Init /\ file = Stringify(DEFAULT_CANVAS)

\* the export relay, whose steps neither read nor write the canvas file, after
\* a fresh start
ExportSpec == FreshStart /\ [][ExportNext]_vars

\* Node runs the callback of an armed timer unless clearTimeout disarms it first
FairExportSpec == ExportSpec /\ \A k \in Callers : WF_vars(ExportTimeout(k))

\* the export relay while a caller of PUT /api/canvas rewrites the canvas
ExportWriteNext ==
    \/ ExportNext
    \/ PutCanvas(DEFAULT_CANVAS)

ExportWriteSpec == FreshStart /\ [][ExportWriteNext]_vars

\* the export relay and the document traffic of one session together, with the
\* file watcher and the clock
OrthoNext ==
    \/ ExportGet
    \/ \E k \in Callers : ExportTimeout(k)
    \/ \E k \in Callers : handleExportRequest("s1", k)
    \/ GetCanvas
    \/ PutCanvas(DocOf(<<Element("a", 1, FALSE)>>))
    \/ Connection("s1")
    \/ Message("s1")
    \/ UserEdit("s1")
    \/ OnMessage("s1")
    \/ sendUpdate("s1")
    \/ onChange("s1")
    \/ WatcherChange
    \/ Tick

OrthoSpec == Init /\ [][OrthoNext]_vars

\* the document traffic, while no export is requested: the sessions report the
\* changes of their users, and the socket of s1 lingers before it is closed
SyncNext ==
    \/ GetCanvas
    \/ \E body \in InputDocs : PutCanvas(body)
    \/ \E s \in Sessions : Connection(s)
    \/ \E s \in Sessions : Message(s)
    \/ \E s \in Sessions : UserEdit(s)
    \/ \E s \in Sessions : OnMessage(s)
    \/ \E s \in Sessions : sendUpdate(s)
    \/ Closing("s1")
    \/ \E s \in Sessions : Close(s)

SyncSpec == Init /\ [][SyncNext]_vars

\* the document traffic, with Excalidraw calling onChange once a scene-update
\* is applied and the watcher delivering the notifications of the relay's own
\* saves
ConvergeNext ==
    \/ SyncNext
    \/ \E s \in Sessions : onChange(s)
    \/ WatcherChange

ConvergeSpec == Init /\ [][ConvergeNext]_vars

\* the document traffic with the file watcher and the clock, while other processes
\* write the canvas file and the user of session s1 draws
WatchNext ==
    \/ \E body \in InputDocs : PutCanvas(body)
    \/ \E s \in Sessions : Connection(s)
    \/ \E s \in Sessions : Message(s)
    \/ WatcherChange
    \/ UserEdit("s1")
    \/ \E s \in Sessions : OnMessage(s)
    \/ \E s \in Sessions : sendUpdate(s)
    \/ onChange("s1")
    \/ \E text \in FileContents : ExternalWrite(text)
    \/ Tick

WatchSpec == Init /\ [][WatchNext]_vars

\* every load of the canvas file (GET /api/canvas, a connection, a file change)
\* while other processes write, damage or remove the file
LoadNext ==
    \/ GetCanvas
    \/ \E s \in Sessions : Connection(s)
    \/ WatcherChange
    \/ \E s \in Sessions : OnMessage(s)
    \/ \E text \in LoadContents : ExternalWrite(text)
    \/ ExternalUnlink

LoadSpec == Init /\ [][LoadNext]_vars

\* runs of the command-line tool against the relay, one at a time, two sessions
\* watching
CliNext ==
    \/ \E cmd \in CliCommands : CliStart("p1", cmd)
    \/ CliFinish("p1")
    \/ \E s \in Sessions : Connection(s)
    \/ \E s \in Sessions : OnMessage(s)

CliSpec == Init /\ [][CliNext]_vars

\* every path on which a document is submitted, with well-formed and with
\* malformed input: socket messages of any client, PUT /api/canvas, the tool
StrayNext ==
    \/ \E s \in Sessions : Connection(s)
    \/ \E s \in Sessions, raw \in StrayRaws : StrayMessage(s, raw)
    \/ \E s \in Sessions : Message(s)
    \/ \E s \in Sessions : OnMessage(s)
    \/ PutCanvasMalformed
    \/ \E cmd \in CliCommands : CliStart("p1", cmd)
    \/ CliFinish("p1")

StraySpec == Init /\ [][StrayNext]_vars

\* two runs of the command-line tool at the same time, each of them run once
\* and adding or merging elements, one session watching
RaceNext ==
    \/ \E p \in Procs, cmd \in RaceCommands : cli[p] = Idle /\ CliStart(p, cmd)
    \/ \E p \in Procs : CliFinish(p)
    \/ Connection("s1")
    \/ OnMessage("s1")

RaceSpec == Init /\ [][RaceNext]_vars

\* one writer edits the canvas with the command-line tool, one command after
\* the other, one session watching
EditNext ==
    \/ \E cmd \in EditCommands : CliStart("p1", cmd)
    \/ CliFinish("p1")
    \/ Connection("s1")
    \/ OnMessage("s1")

EditSpec == Init /\ [][EditNext]_vars

\* one writer draws shapes and erases them with the command-line tool, one
\* command after the other, one session watching
SketchNext ==
    \/ \E cmd \in SketchCommands : CliStart("p1", cmd)
    \/ CliFinish("p1")
    \/ Connection("s1")
    \/ OnMessage("s1")

SketchSpec == Init /\ [][SketchNext]_vars

\* a program that calls mergeElements
MergeNext == callMergeElements("p1")

MergeSpec == Init /\ [][MergeNext]_vars

\* the same while nothing but the relay writes the canvas file: every
\* notification the watcher delivers is of a save of the relay
LoopNext ==
    \/ \E body \in InputDocs : PutCanvas(body)
    \/ \E s \in Sessions : Connection(s)
    \/ \E s \in Sessions : Message(s)
    \/ WatcherChange
    \/ UserEdit("s1")
    \/ \E s \in Sessions : OnMessage(s)
    \/ \E s \in Sessions : sendUpdate(s)
    \/ \E s \in Sessions : onChange(s)
    \/ Tick

LoopSpec == Init /\ [][LoopNext]_vars

\* the user of session s1 has drawn a scene before the session first connects:
\* Excalidraw holds it and onChange has armed sendUpdate
FpInit ==
    \E els \in FpInputs :
        /\ file \in StartFiles
        /\ fileChanged = FALSE
        /\ now = StartTime
        /\ lastWriteFromClient = 0
        /\ pendingExportResolve = 0
        /\ timers = {}
        /\ nextCaller = 1
        /\ res = [k \in Callers |-> << >>]
        /\ reply = NoReply
        /\ clients = {}
        /\ readyState = [s \in Sessions |-> 3]
        /\ inbox = [s \in Sessions |-> << >>]
        /\ outbox = [s \in Sessions |-> << >>]
        /\ scene = [s \in Sessions |-> IF s = "s1" THEN els ELSE << >>]
        /\ lastRemoteFingerprint = [s \in Sessions |-> <<0, 0>>]
        /\ incoming = [s \in Sessions |-> << >>]
        /\ debounce = [s \in Sessions |-> s = "s1" /\ els # << >>]
        /\ args = [s \in Sessions |-> IF s = "s1" THEN els ELSE << >>]
        /\ jobs = {}
        /\ cli = [p \in Procs |-> Idle]

\* session s1 connects, reports its scene and applies what the relay sends
FpNext ==
    \/ Connection("s1")
    \/ Message("s1")
    \/ OnMessage("s1")
    \/ sendUpdate("s1")
    \/ onChange("s1")

FpSpec == FpInit /\ [][FpNext]_vars

\* one session whose user redraws the scene at will, while a caller of
\* PUT /api/canvas replaces the document; the relay is not shown handling the
\* session's reports, which leave the socket when it closes
EchoNext ==
    \/ \E body \in EchoDocs : PutCanvas(body)
    \/ Connection("s1")
    \/ \E els \in EchoScenes : handleChange("s1", els)
    \/ OnMessage("s1")
    \/ sendUpdate("s1")
    \/ onChange("s1")
    \/ Close("s1")

EchoSpec == Init /\ [][EchoNext]_vars

\* one session whose user draws nothing: it connects, applies what the relay
\* sends, closes and reconnects, while a caller of PUT /api/canvas replaces the
\* document, never with element "a" at version 1: the session gets that one
\* from the file the relay starts with, as the initial state of a connection
ViewNext ==
    \/ \E body \in EchoDocs \ {DocOf(<<Element("a", 1, FALSE)>>)} : PutCanvasQueued(body)
    \/ Connection("s1")
    \/ OnMessage("s1")
    \/ onChange("s1")
    \/ sendUpdate("s1")
    \/ Close("s1")

ViewSpec == Init /\ [][ViewNext]_vars

\* one session that stays connected, the relay handling its reports, while a
\* caller of PUT /api/canvas puts element "a" back at version 1
FlushNext ==
    \/ PutCanvas(DocOf(<<Element("a", 1, FALSE)>>))
    \/ Connection("s1")
    \/ Message("s1")
    \/ \E els \in EchoScenes : handleChange("s1", els)
    \/ OnMessage("s1")
    \/ sendUpdate("s1")
    \/ onChange("s1")

FlushSpec == Init /\ [][FlushNext]_vars

-----------------------------------------------------------------------------
(* The export relay: claims. *)

\* caller k was admitted and has no response yet
Suspended(k) == k < nextCaller /\ res[k] = << >>

\* the step is the handling of one GET /api/export-png
IsExportGet == nextCaller' = nextCaller + 1

\* the step writes response r to caller k
Answers(k, r) == res'[k] = Append(res[k], r)

\* C1: a GET /api/export-png that arrives while the slot is non-null is answered 409
\* at once, arms no timer, broadcasts nothing and leaves the slot as it is; nothing
\* that decides the first request's outcome (slot, timers, the other responses, the
\* messages in flight, the renders in progress) is changed by it.
C1_SecondExportRejected ==
    [][ (IsExportGet /\ pendingExportResolve # 0) =>
           /\ res'[nextCaller] = <<[status |-> 409]>>
           /\ \A k \in Callers \ {nextCaller} : res'[k] = res[k]
           /\ pendingExportResolve' = pendingExportResolve
           /\ timers' = timers
           /\ inbox' = inbox
           /\ jobs' = jobs ]_vars

\* a second caller was rejected while the first is still suspended
C1_Witness ==
    /\ pendingExportResolve = 1
    /\ Suspended(1)
    /\ res[2] = <<[status |-> 409]>>

\* C2: at most one export caller is suspended, and a step that writes PNG bytes to a
\* response writes them to the one suspended caller's response and to no other.
C2_OneSuspendedCaller ==
    [][ /\ Cardinality({k \in Callers : Suspended(k)'}) <= 1
        /\ \A k \in Callers :
              (res'[k] # res[k] /\ res'[k][Len(res'[k])].status = 200) =>
                 /\ Suspended(k)
                 /\ pendingExportResolve = k
                 /\ \A j \in Callers \ {k} : res'[j] = res[j] ]_vars

\* the suspended caller got its bytes while another caller had been rejected
C2_Witness ==
    /\ res[1] = <<[status |-> 200, body |-> Png("s1", 1)]>>
    /\ res[2] = <<[status |-> 409]>>

\* C3: an export caller's response is written once: by fulfill or by the timeout,
\* never both, whatever the order of timer and POSTs.  The outstanding caller has no
\* response yet, and every caller that is no longer outstanding has exactly one.
C3_ExactlyOneOutcome ==
    \A k \in Callers :
        /\ Len(res[k]) <= 1
        /\ k = pendingExportResolve => res[k] = << >>
        /\ (k < nextCaller /\ k # pendingExportResolve) => Len(res[k]) = 1

\* one caller was fulfilled and another timed out, and a late POST came after both
C3_Witness ==
    /\ \E k \in Callers : res[k] # << >> /\ res[k][1].status = 200
    /\ \E k \in Callers : res[k] # << >> /\ res[k][1].status = 504
    /\ reply.status = 400

\* the step disarms caller k's timer and does not fulfill caller k
TimedOut(k) ==
    /\ k \in timers
    /\ k \notin timers'
    /\ ~(res'[k] # res[k] /\ res'[k][Len(res'[k])].status = 200)

\* C4: when the timer of the outstanding request fires before any fulfillment, the
\* caller gets 504 and the slot is Idle again; a request handled while the slot is
\* Idle is admitted, not answered 409; and, the timer being sure to fire, every
\* admitted request leaves the Requested state.
C4_TimeoutFreesSlot ==
    /\ [][ \A k \in Callers :
              (TimedOut(k) /\ pendingExportResolve = k) =>
                  (Answers(k, [status |-> 504]) /\ pendingExportResolve' = 0) ]_vars
    /\ [][ (IsExportGet /\ pendingExportResolve = 0) =>
              (pendingExportResolve' = nextCaller /\ res'[nextCaller] = << >>) ]_vars
    /\ \A k \in Callers : (pendingExportResolve = k) ~> (pendingExportResolve # k)

\* caller 1 timed out and the request made after it was admitted
C4_Witness ==
    /\ res[1] = <<[status |-> 504]>>
    /\ pendingExportResolve = 2
    /\ Suspended(2)

\* the step is the handling of one POST /api/export-png
IsExportPost == reply'.to = "POST /api/export-png"

\* C5: a POST /api/export-png handled while the slot is Idle is answered 400, leaves
\* the slot Idle and changes no caller's response.
C5_LatePostRejected ==
    [][ (IsExportPost /\ pendingExportResolve = 0) =>
           /\ reply'.status = 400
           /\ pendingExportResolve' = 0
           /\ res' = res
           /\ timers' = timers ]_vars

\* a session's render arrived after its request had timed out, and was rejected
C5_Witness ==
    /\ reply = [to |-> "POST /api/export-png", status |-> 400]
    /\ res[1] = <<[status |-> 504]>>
    /\ pendingExportResolve = 0
    /\ \E s \in Sessions : s \in clients /\ jobs = {}

\* C6: the bytes a caller receives from a session were rendered on that caller's own
\* export-request.
C6_RenderIsForCaller ==
    \A k \in Callers : \A i \in 1..Len(res[k]) :
        (res[k][i].status = 200 /\ res[k][i].body.by \in Sessions) =>
            res[k][i].body.for = k

\* the slot leaves Requested by answering the outstanding caller, 200 or 504
LeavesByAnswering ==
    LET k == pendingExportResolve IN
    /\ pendingExportResolve' = 0
    /\ Len(res'[k]) = Len(res[k]) + 1
    /\ SubSeq(res'[k], 1, Len(res[k])) = res[k]
    /\ res'[k][Len(res'[k])].status \in {200, 504}

\* C7: the only timer that answers 504 is the one of the outstanding request; no timer
\* stays armed for a request that is no longer outstanding; and the slot leaves
\* Requested only by a fulfill or by that timer, each answering the outstanding
\* caller (not by a write, a disconnect or a rejected request).
C7_OnlyOwnTimerCancels ==
    [][ /\ \A k \in Callers : Answers(k, [status |-> 504]) => pendingExportResolve = k
        /\ timers' \subseteq {pendingExportResolve'} \ {0}
        /\ (pendingExportResolve # 0 /\ pendingExportResolve' # pendingExportResolve)
              => LeavesByAnswering ]_vars

\* request 1 was fulfilled by session s1, request 2 is outstanding with its own timer
\* armed, a PUT /api/canvas was just handled and every session has disconnected
C7_Witness ==
    /\ res[1] = <<[status |-> 200, body |-> Png("s1", 1)]>>
    /\ pendingExportResolve = 2
    /\ timers = {2}
    /\ reply.to = "PUT /api/canvas"
    /\ clients = {}

-----------------------------------------------------------------------------
(* The document traffic: claims. *)

A1 == <<Element("a", 1, FALSE)>>

\* session c is registered and its transport is open
Open(c) == c \in clients /\ readyState[c] = 1

\* the step sends m once to every open session but S, and nothing to the others
SentTo(m, S) ==
    \A c \in Sessions :
        inbox'[c] = IF Open(c) /\ c # S THEN Append(inbox[c], m) ELSE inbox[c]

\* raw is a scene-update that carries a document
CarriesDocument(raw) ==
    /\ Parses(raw)
    /\ Parse(raw).type = "scene-update"
    /\ DataOf(Parse(raw)) # Undefined

\* C8: a broadcast that excludes socket S sends the message once to every registered
\* open session but S, never to S, and skips the sessions that are not open; with no
\* socket excluded every open session receives it.
C8_BroadcastExclusion ==
    [][ /\ \A body \in InputDocs :
              PutCanvas(body) => SentTo(SceneUpdate(body), NoSocket)
        /\ \A ws \in Sessions :
              (Message(ws) /\ CarriesDocument(Head(outbox[ws])))
                 => SentTo(Head(outbox[ws]), ws) ]_vars

\* a PUT was broadcast while s1 was closing: s1 was skipped, s2 received the update
C8_Witness ==
    /\ reply.to = "PUT /api/canvas"
    /\ "s1" \in clients /\ readyState["s1"] = 2 /\ inbox["s1"] = << >>
    /\ Open("s2") /\ inbox["s2"] = <<SceneUpdate(DocOf(A1))>>
    /\ file = Stringify(DocOf(A1))

\* C9: when the relay handles a session's scene-update carrying document D, D becomes
\* the canonical document and that update is sent to every other open session and
\* not to the sender.
C9_SessionUpdateSavedAndRelayed ==
    [][ \A ws \in Sessions : \A D \in InputDocs :
           (Message(ws) /\ Head(outbox[ws]) = SceneUpdate(D)) =>
              /\ file' = Stringify(D)
              /\ readCanvas' = D
              /\ inbox'[ws] = inbox[ws]
              /\ \A c \in Sessions \ {ws} :
                    Open(c) => inbox'[c] = Append(inbox[c], SceneUpdate(D)) ]_vars

\* s1 drew element a; the relay saved the scene and relayed it to s2 only
C9_Witness ==
    /\ Open("s1") /\ scene["s1"] = A1 /\ lastRemoteFingerprint["s1"] = <<0, 0>>
    /\ outbox["s1"] = << >> /\ inbox["s1"] = << >>
    /\ file = Stringify(DocOf(A1))
    /\ Open("s2") /\ scene["s2"] = << >> /\ inbox["s2"] = <<SceneUpdate(DocOf(A1))>>

\* the step is the handling of one GET /api/canvas
IsGetCanvas == reply'.to = "GET /api/canvas"

\* C10: PUT /api/canvas with document D makes D the canonical document, sends a
\* scene-update carrying D to every open session, none excluded, and acknowledges;
\* a read returns the canonical document and changes nothing, so a read that follows
\* with no write in between returns D.
C10_ReplaceDocument ==
    [][ /\ \A body \in InputDocs :
              PutCanvas(body) =>
                 /\ file' = Stringify(body)
                 /\ readCanvas' = body
                 /\ SentTo(SceneUpdate(body), NoSocket)
                 /\ reply'.status = 200
        /\ IsGetCanvas => (reply'.body = readCanvas /\ file' = file) ]_vars

\* the empty document was PUT while both sessions, which had applied element
\* "a", were open, and then read back
C10_Witness ==
    /\ reply = [to |-> "GET /api/canvas", status |-> 200, body |-> DEFAULT_CANVAS]
    /\ \A s \in Sessions :
          /\ Open(s) /\ incoming[s] = A1 /\ scene[s] = A1
          /\ inbox[s] = <<SceneUpdate(DEFAULT_CANVAS)>>

-----------------------------------------------------------------------------
(* The file watcher: claims. *)

\* C11: a file-change notification handled less than 500 ms after the relay's
\* own most recent save, made for a session's scene-update or for a PUT, sends
\* nothing to any session.
C11_SelfWriteSuppressed ==
    [][(WatcherChange /\ lastWriteFromClient # 0 /\ now - lastWriteFromClient < 500)
          => inbox' = inbox]_vars

\* the relay saved element "a" at the present instant, the notification of that
\* save was handled, and two open sessions have nothing in flight
C11_Witness ==
    /\ lastWriteFromClient = now
    /\ ~fileChanged
    /\ file = Stringify(DocOf(A1))
    /\ \A s \in Sessions : Open(s) /\ inbox[s] = << >>

\* C12: a file-change notification handled when 500 ms or more have passed since
\* the relay's last save appends exactly one scene-update to the inbox of every
\* open session, none excluded, and to no other inbox; the scene-update carries
\* the document the file holds at that moment, as the relay loads it.
C12_ExternalChangeBroadcast ==
    [][(WatcherChange /\ now - lastWriteFromClient >= 500)
          => \A s \in Sessions :
                inbox'[s] = IF Open(s)
                            THEN Append(inbox[s], SceneUpdate(readCanvas))
                            ELSE inbox[s]]_vars

\* the relay never saved, both sessions applied element "a" of the file, another
\* process emptied the canvas in the file, the notification was handled, and
\* both sessions have the scene-update of the new document in flight
C12_Witness ==
    /\ lastWriteFromClient = 0
    /\ ~fileChanged
    /\ file = Stringify(DEFAULT_CANVAS)
    /\ \A s \in Sessions :
          /\ Open(s)
          /\ incoming[s] = A1
          /\ inbox[s] = <<SceneUpdate(DEFAULT_CANVAS)>>

-----------------------------------------------------------------------------
(* The fingerprint and the echo test: claims. *)

\* the positions of the elements of E that are not deleted
Active(E) == {i \in DOMAIN E : ~E[i].isDeleted}

\* the sum of the versions of the elements of E at the positions I, a missing
\* version counted as 0
RECURSIVE VersionSum(_, _)
VersionSum(E, I) ==
    IF I = {} THEN 0
    ELSE LET i == CHOOSE j \in I : TRUE
         IN (IF "version" \in DOMAIN E[i] THEN E[i].version ELSE 0)
            + VersionSum(E, I \ {i})

\* E with every element reduced to its pair (isDeleted, version)
Pairs(E) ==
    [i \in DOMAIN E |->
        IF "version" \in DOMAIN E[i]
        THEN [isDeleted |-> E[i].isDeleted, version |-> E[i].version]
        ELSE [isDeleted |-> E[i].isDeleted]]

\* C14: the fingerprint of the scene E a session holds is the pair (number of
\* elements not deleted, sum of their versions with a missing version counted
\* as 0); it is the fingerprint of E's (isDeleted, version) pairs alone and of
\* every permutation of E; the empty and the absent sequence give (0, 0).
C14_FingerprintPure ==
    /\ sceneFingerprint(<< >>) = <<0, 0>>
    /\ sceneFingerprint(NoElements) = <<0, 0>>
    /\ LET E == scene["s1"] IN
          /\ sceneFingerprint(E) = <<Cardinality(Active(E)), VersionSum(E, Active(E))>>
          /\ sceneFingerprint(Pairs(E)) = sceneFingerprint(E)
          /\ \A p \in Permutations(DOMAIN E) :
                sceneFingerprint([i \in DOMAIN E |-> E[p[i]]]) = sceneFingerprint(E)

\* session s1 reported a scene of an element without version and a deleted
\* element at version 2: sendUpdate computed its fingerprint, found it different
\* from "0:0" and sent the scene
C14_Witness ==
    /\ scene["s1"] = <<ElementNoVersion("a", FALSE), Element("b", 2, TRUE)>>
    /\ outbox["s1"] = <<SceneUpdate(DocOf(scene["s1"]))>>

\* the live elements of E, each as its id and version
ActiveSet(E) == {<<E[i].id, versionOr0(E[i])>> : i \in Active(E)}

\* E is D with the version of exactly one live element raised by one
OneBump(D, E) ==
    /\ DOMAIN E = DOMAIN D
    /\ \E i \in Active(D) :
          /\ E[i] = [D[i] EXCEPT !.version = @ + 1]
          /\ \A j \in DOMAIN D \ {i} : E[j] = D[j]

\* C13: when the report of an open session runs, with D the elements of the
\* scene-update the session last applied: reported elements with the same live
\* elements at the same versions as D are not sent, and reported elements that
\* are D with one live element's version raised by one are sent, whole.
C13_EchoRoundTrip ==
    [][\A s \in Sessions :
          (sendUpdate(s) /\ Open(s))
             => /\ ActiveSet(args[s]) = ActiveSet(incoming[s]) => outbox' = outbox
                /\ OneBump(incoming[s], args[s])
                      => outbox'[s] = Append(outbox[s], SceneUpdate(DocOf(args[s])))]_vars

\* session s1 applied the scene-update of element "a" at version 1, its user
\* then changed "a", and the report of the changed scene is in flight
C13_Witness ==
    /\ Open("s1")
    /\ incoming["s1"] = A1
    /\ scene["s1"] = <<Element("a", 2, FALSE)>>
    /\ outbox["s1"] = <<SceneUpdate(DocOf(scene["s1"]))>>

-----------------------------------------------------------------------------
(* Convergence and termination: claims. *)

\* nothing is in flight: no message either way, no report waiting for its
\* debounce timer, no file-change notification to deliver
Quiescent ==
    /\ ~fileChanged
    /\ \A s \in Sessions : inbox[s] = << >> /\ outbox[s] = << >> /\ ~debounce[s]

\* C15: once nothing is in flight, every open session holds the elements of
\* the canonical document.
C15_Converges ==
    Quiescent => \A s \in Sessions : Open(s) => scene[s] = readCanvas.elements

\* the report of session s that runs was triggered by applying a scene-update:
\* the user of s draws nothing (only the user of s1 does), so the elements it
\* reports are those a scene-update brought
EchoReport(s) == sendUpdate(s) /\ s # "s1" /\ args[s] # << >>

\* C16: no feedback loop.  The report that applying a scene-update triggers at
\* the receiving session is never sent back to the relay.
C16_NoFeedbackLoop ==
    [][\A s \in Sessions : EchoReport(s) => outbox' = outbox]_vars

\* session s holds a local edit whose report ran and was not sent because
\* the edited scene has the fingerprint of the scene-update last applied: s is
\* open, the scene is not the one that scene-update carried, and no report is
\* waiting
SuppressedEdit(s) ==
    /\ Open(s)
    /\ incoming[s] # << >>
    /\ ~debounce[s]
    /\ scene[s] # incoming[s]
    /\ sceneFingerprint(scene[s]) = lastRemoteFingerprint[s]

\* C17: a suppressed edit is only delayed, never lost: it waits in the
\* session's scene until the next report with a differing fingerprint carries
\* the full element set, so nothing but a further change by the user replaces
\* the scene that holds it.
C17_SuppressedNeverLost ==
    [][\A s \in Sessions :
          SuppressedEdit(s)
             => scene'[s] = scene[s] \/ handleChange(s, scene'[s])]_vars

-----------------------------------------------------------------------------
(* Error handling: claims. *)

\* the canvas file is absent, is not JSON, or is a document of another schema
NeedsRepair ==
    \/ ~Parses(file)
    \/ Parse(file).type # DEFAULT_CANVAS.type
    \/ Parse(file).version # DEFAULT_CANVAS.version

\* C18: a load, here the one GET /api/canvas makes, that finds the file absent,
\* unparseable or of another schema writes the default document to the file
\* and returns the default document.
C18_LoadRepairsFile ==
    [][(GetCanvas /\ NeedsRepair)
          => /\ file' = Stringify(DEFAULT_CANVAS)
             /\ reply'.body = DEFAULT_CANVAS]_vars

\* the ids of the elements of the canvas run p read
IdsRead(p) == {cli[p].canvas.elements[i].id : i \in DOMAIN cli[p].canvas.elements}

\* run p goes on with an update or a delete none of whose ids is in the canvas
TargetsNoElement(p) ==
    /\ cli[p].pc = "loaded"
    /\ \/ cli[p].cmd.name = "update" /\ cli[p].cmd.id \notin IdsRead(p)
       \/ cli[p].cmd.name = "delete" /\ cli[p].cmd.ids \cap IdsRead(p) = {}

\* C20: an update or a delete none of whose ids is in the canvas ends with an
\* error, and the relay neither saves nor broadcasts for it.
C20_NotFoundRejected ==
    [][\A p \in Procs :
          (CliFinish(p) /\ TargetsNoElement(p))
             => /\ cli'[p] = Exited(1)
                /\ UNCHANGED <<file, fileChanged, lastWriteFromClient, inbox>>]_vars

\* raw is not JSON, or is a scene-update that carries no document
MalformedRaw(raw) ==
    \/ ~Parses(raw)
    \/ Parse(raw).type = "scene-update" /\ DataOf(Parse(raw)) = Undefined

\* the canonical document, the recorded time of the last save, what is in
\* flight to the sessions and what the sessions show
canonVars == <<file, fileChanged, lastWriteFromClient, inbox, scene>>

\* C19: malformed input is rejected and changes nothing: a socket message that
\* is not JSON or carries no document, a PUT /api/canvas whose body does not
\* parse (answered with an error status) and JSON input of the tool that does
\* not parse (exit 1) leave the file, the recorded time of the last save, every
\* inbox and every session's scene as they were.
C19_MalformedRejected ==
    [][/\ \A ws \in Sessions :
             (Message(ws) /\ MalformedRaw(Head(outbox[ws]))) => UNCHANGED canonVars
       /\ PutCanvasMalformed => reply'.status >= 400 /\ UNCHANGED canonVars
       /\ \A p \in Procs, cmd \in CliCommands :
             (CliStart(p, cmd) /\ "json" \in DOMAIN cmd /\ ~Parses(cmd.json))
                => cli'[p] = Exited(1) /\ UNCHANGED canonVars]_vars


-----------------------------------------------------------------------------
(* Concurrent writers: claims. *)

\* the element add and merge store for an element given as a type and id i
Norm(i) == [type |-> "rectangle", id |-> i, version |-> 1, isDeleted |-> FALSE]

\* the canvas run p of add, merge or draw-rect writes, made from the canvas it
\* read, where the ids drawn for its elements were ids
Written(p, ids) ==
    IF cli[p].cmd.name = "merge"
    THEN mergeIncoming(cli[p].canvas, newElementsOf(cli[p].cmd), ids)
    ELSE addElements(cli[p].canvas, newElementsOf(cli[p].cmd), ids)

\* C21: last full write wins.  A run of add, merge or draw-rect that reaches its
\* write replaces the canvas file by the canvas it made from the one it read,
\* whatever the file holds by then, the PUT is answered 200 and the run exits 0;
\* the file changes in no other step.  So the file is the argument of the last
\* save, and a change made between a run's read and its write is discarded
\* without error.
C21_LastWriteWins ==
    [][/\ \A p \in Procs :
            CliFinish(p) =>
                /\ \E ids \in Draws(newElementsOf(cli[p].cmd)) :
                      file' = Stringify(Written(p, ids))
                /\ reply' = [to |-> "PUT /api/canvas", status |-> 200, body |-> [ok |-> TRUE]]
                /\ cli'[p] = Exited(0)
       /\ file' # file => \E p \in Procs : CliFinish(p)]_vars

\* both runs read the empty canvas; one added "b", which session s1 has applied;
\* the other then wrote its copy with "c": "b" is gone, both exited 0
C21_Witness ==
    /\ \A p \in Procs : cli[p] = Exited(0)
    /\ scene["s1"] = <<Norm("b")>>
    /\ inbox["s1"] = <<SceneUpdate(DocOf(<<Norm("c")>>))>>
    /\ file = Stringify(DocOf(<<Norm("c")>>))

\* the elements of a canvas, as a set
Elems(canvas) == {canvas.elements[i] : i \in DOMAIN canvas.elements}

\* the ids of the elements run p was given
IncomingIds(p) ==
    {idOf(Parse(cli[p].cmd.json)[i]) : i \in DOMAIN Parse(cli[p].cmd.json)}

\* C22: merge preserves concurrent edits.  When a run of merge writes, every
\* element that another writer put into the canvas file since the run read it,
\* and whose id is not among the run's incoming elements, is in the file after
\* the write, as that writer left it.
C22_MergeKeepsConcurrentEdits ==
    [][\A p \in Procs :
          (CliFinish(p) /\ cli[p].cmd.name = "merge") =>
              \A el \in Elems(readCanvas) \ Elems(cli[p].canvas) :
                  el.id \notin IncomingIds(p) => el \in Elems(Parse(file'))]_vars

-----------------------------------------------------------------------------
(* Element versions and the editing commands: claims. *)

\* the ids of the elements of a canvas
Ids(canvas) == {canvas.elements[i].id : i \in DOMAIN canvas.elements}

\* the element of a canvas that has id i (the first, should there be several)
ById(canvas, i) == canvas.elements[findIndex(canvas.elements, i)]

\* C23: the version of an element is monotonic.  In every step, an element id
\* that is in the canonical document before and after has a version that is no
\* lower after, and a higher one if the element changed.
C23_VersionMonotonic ==
    [][\A i \in Ids(readCanvas) \cap Ids(readCanvas') :
          LET before == ById(readCanvas, i)
              after == ById(readCanvas', i)
          IN /\ versionOr0(after) >= versionOr0(before)
             /\ after # before => versionOr0(after) > versionOr0(before)]_vars

-----------------------------------------------------------------------------
(* The export relay and the document traffic: claims. *)

\* the step is the relay handling the oldest message session s has in flight
IsMessage(s) == s \in clients /\ outbox[s] # << >> /\ outbox'[s] = Tail(outbox[s])

\* the step is the file watcher delivering a change of the canvas file
IsWatcherChange == fileChanged /\ ~fileChanged'

\* C24: the export relay is orthogonal to the document traffic.  Whether an
\* export is pending or not, a read is answered with the canvas, a
\* replace-document call and a session's scene-update are saved and broadcast,
\* a file change outside the quiet window is broadcast, and each leaves the
\* export slot, its timers and the callers' responses alone; a step that changes
\* any of these changes neither the canvas file nor the time of the last save.
C24_ExportOrthogonal ==
    [][/\ reply'.to = "GET /api/canvas" =>
            /\ reply' = [to |-> "GET /api/canvas", status |-> 200, body |-> readCanvas]
            /\ UNCHANGED <<exportVars, docVars, inbox>>
       /\ reply'.to = "PUT /api/canvas" =>
            /\ reply'.status = 200
            /\ Parses(file')
            /\ lastWriteFromClient' = now
            /\ inbox' = broadcast(SceneUpdate(Parse(file')), NoSocket)
            /\ UNCHANGED exportVars
       /\ IsMessage("s1") =>
            /\ file' = Stringify(DataOf(Parse(Head(outbox["s1"]))))
            /\ lastWriteFromClient' = now
            /\ inbox' = broadcast(Head(outbox["s1"]), "s1")
            /\ UNCHANGED exportVars
       /\ IsWatcherChange =>
            /\ inbox' = IF WithinQuietWindow THEN inbox
                        ELSE broadcast(SceneUpdate(readCanvas), NoSocket)
            /\ UNCHANGED <<exportVars, file, lastWriteFromClient>>
       /\ exportVars' # exportVars => UNCHANGED <<file, lastWriteFromClient>>]_vars

\* caller 1's export is pending, session s1 is rendering it, and the relay has
\* just handled a PUT of element "a": saved, and broadcast to s1
C24_Witness ==
    /\ pendingExportResolve = 1
    /\ <<"s1", 1>> \in jobs
    /\ reply = [to |-> "PUT /api/canvas", status |-> 200, body |-> [ok |-> TRUE]]
    /\ file = Stringify(DocOf(<<Element("a", 1, FALSE)>>))
    /\ lastWriteFromClient = now
    /\ inbox["s1"] = <<SceneUpdate(DocOf(<<Element("a", 1, FALSE)>>))>>

-----------------------------------------------------------------------------
(* mergeElements: claims. *)

\* the ids of a list of elements
IdsOf(E) == {idOf(E[i]) : i \in DOMAIN E}

\* where id i occurs first, and last, in a list that has it
FirstAt(E, i) ==
    CHOOSE n \in DOMAIN E : idOf(E[n]) = i /\ \A m \in DOMAIN E : idOf(E[m]) = i => n <= m
LastAt(E, i) ==
    CHOOSE n \in DOMAIN E : idOf(E[n]) = i /\ \A m \in DOMAIN E : idOf(E[m]) = i => m <= n

\* r is el with the fields el lacks filled in: version 1, not deleted
FilledIn(r, el) ==
    /\ DOMAIN r = DOMAIN el \cup {"version", "isDeleted"}
    /\ \A f \in DOMAIN el : r[f] = el[f]
    /\ "version" \notin DOMAIN el => r.version = 1
    /\ "isDeleted" \notin DOMAIN el => r.isDeleted = FALSE

\* list I with an incoming element that has neither an id nor a version given
\* the id drawn for it
WithIds(I, ids) ==
    [n \in DOMAIN I |->
        IF "id" \in DOMAIN I[n] \/ "version" \in DOMAIN I[n] THEN I[n]
        ELSE Spread(I[n], [id |-> ids[n]])]

\* in list R every id of E and I occurs once, the ids of E first, as they first
\* occur in E, then the ids new in I, as they first occur in I
MergedOrder(R, E, I) ==
    /\ IdsOf(R) = IdsOf(E) \cup IdsOf(I)
    /\ \A n, m \in DOMAIN R : idOf(R[n]) = idOf(R[m]) => n = m
    /\ \A n, m \in DOMAIN R :
          n < m =>
              \/ idOf(R[n]) \in IdsOf(E) /\ idOf(R[m]) \notin IdsOf(E)
              \/ /\ idOf(R[n]) \in IdsOf(E) /\ idOf(R[m]) \in IdsOf(E)
                 /\ FirstAt(E, idOf(R[n])) < FirstAt(E, idOf(R[m]))
              \/ /\ idOf(R[n]) \notin IdsOf(E) /\ idOf(R[m]) \notin IdsOf(E)
                 /\ FirstAt(I, idOf(R[n])) < FirstAt(I, idOf(R[m]))

\* an id that is only in E has the element E holds for it (the last, should E
\* repeat the id)
KeepsExisting(R, E, I) ==
    \A n \in DOMAIN R : idOf(R[n]) \notin IdsOf(I) => R[n] = E[LastAt(E, idOf(R[n]))]

\* C25 as stated: mergeElements returns a list, in the merged order, in which
\* every id of incoming has the last incoming element of that id and every
\* other id its existing element.
C25_MergeByIdVerbatim ==
    \A p \in Procs :
        cli[p].pc \in {"merged", "threw"} =>
            /\ cli[p].pc = "merged"
            /\ LET R == cli[p].out
                   E == cli[p].existing
                   I == cli[p].incoming
               IN /\ MergedOrder(R, E, I)
                  /\ KeepsExisting(R, E, I)
                  /\ \A n \in DOMAIN R :
                        idOf(R[n]) \in IdsOf(I) => R[n] = I[LastAt(I, idOf(R[n]))]

\* C25: mergeElements throws exactly when an incoming element has neither a
\* version nor a type; otherwise, an incoming element that has neither an id nor
\* a version being given a random id, it returns a list, in the merged order, in
\* which every id of incoming has the last incoming element of that id, whatever
\* the versions are (as given if it has a version, else with version 1 and
\* isDeleted false filled in), and every other id its existing element.
C25_MergeById ==
    \A p \in Procs :
        cli[p].pc \in {"merged", "threw"} =>
            LET E == cli[p].existing
                I == cli[p].incoming
            IN /\ cli[p].pc = "threw" <=>
                    \E n \in DOMAIN I : DOMAIN I[n] \cap {"version", "type"} = {}
               /\ cli[p].pc = "merged" =>
                    \E ids \in Draws(I) :
                       LET R == cli[p].out
                           N == WithIds(I, ids)
                       IN /\ MergedOrder(R, E, N)
                          /\ KeepsExisting(R, E, N)
                          /\ \A n \in DOMAIN R :
                                idOf(R[n]) \in IdsOf(N) =>
                                   LET el == N[LastAt(N, idOf(R[n]))]
                                   IN IF "version" \in DOMAIN el THEN R[n] = el
                                      ELSE FilledIn(R[n], el)

\* existing holds "a" at version 2 and "b"; incoming holds "a" twice, the last at
\* version 1 and lower than the stored one: the result holds that one, then "b"
C25_Witness ==
    /\ cli["p1"].pc = "merged"
    /\ cli["p1"].existing = <<Element("a", 2, FALSE), Element("b", 1, FALSE)>>
    /\ cli["p1"].incoming = <<Partial("a"), Element("a", 1, FALSE)>>
    /\ cli["p1"].out = <<Element("a", 1, FALSE), Element("b", 1, FALSE)>>

-----------------------------------------------------------------------------
(* The editing commands of the tool: claims. *)

\* run p is an update of an element the canvas it read holds
UpdatesElement(p) ==
    /\ cli[p].pc = "loaded"
    /\ cli[p].cmd.name = "update"
    /\ cli[p].cmd.id \in Ids(cli[p].canvas)

\* C26: update raises the version by exactly one.  When a run of update writes,
\* the canvas file holds the elements the run read, except that the first element
\* of the given id has the version it had (0 if it had none) plus 1, whatever
\* the patch says; if that element was live and the patch has no isDeleted, the
\* fingerprint goes from (c, s) to (c, s + 1).
C26_UpdateBumpsVersion ==
    [][\A p \in Procs :
          (CliFinish(p) /\ UpdatesElement(p)) =>
              LET old == cli[p].canvas.elements
                  new == Parse(file').elements
                  n == FirstAt(old, cli[p].cmd.id)
                  patch == Parse(cli[p].cmd.json)
              IN /\ cli'[p] = Exited(0)
                 /\ DOMAIN new = DOMAIN old
                 /\ new[n].version = versionOr0(old[n]) + 1
                 /\ \A m \in DOMAIN old : m # n => new[m] = old[m]
                 /\ (~old[n].isDeleted /\ "isDeleted" \notin DOMAIN patch) =>
                       sceneFingerprint(new) =
                          <<sceneFingerprint(old)[1], sceneFingerprint(old)[2] + 1>>]_vars

\* element "a" at version 1, next to element "b", was updated with a patch that
\* says version 1: the file and session s1 hold "a" at version 2 and "b" as it
\* was, and the fingerprint at s1 went from (2,2) to (2,3)
C26_Witness ==
    /\ cli["p1"] = Exited(0)
    /\ file = Stringify(DocOf(<<Element("a", 2, FALSE), Element("b", 1, FALSE)>>))
    /\ scene["s1"] = <<Element("a", 2, FALSE), Element("b", 1, FALSE)>>
    /\ lastRemoteFingerprint["s1"] = <<2, 3>>

\* run p is a delete that has read the canvas
Deletes(p) == cli[p].pc = "loaded" /\ cli[p].cmd.name = "delete"

\* C27: delete is a soft delete.  When a run of delete writes, the canvas file
\* holds as many elements as the run read, in the same places: a targeted element
\* with isDeleted true, its version (0 if none) plus 1 and its other fields as
\* they were, any other element unchanged; the fingerprint of the result is the
\* fingerprint of the elements that were not targeted.  read-elements prints the
\* elements of the canvas that are not deleted.
C27_SoftDelete ==
    [][\A p \in Procs :
          /\ (CliFinish(p) /\ Deletes(p)) =>
                LET old == cli[p].canvas.elements
                    new == Parse(file').elements
                    ids == cli[p].cmd.ids
                IN /\ cli'[p] = Exited(0)
                   /\ DOMAIN new = DOMAIN old
                   /\ \A m \in DOMAIN old :
                         IF old[m].id \in ids
                         THEN /\ new[m].isDeleted
                              /\ new[m].version = versionOr0(old[m]) + 1
                              /\ DOMAIN new[m] = DOMAIN old[m] \cup {"version"}
                              /\ \A f \in DOMAIN old[m] \ {"version", "isDeleted"} :
                                    new[m][f] = old[m][f]
                         ELSE new[m] = old[m]
                   /\ sceneFingerprint(new) =
                         sceneFingerprint(SelectSeq(old, LAMBDA el : el.id \notin ids))
          /\ (cli'[p] # cli[p] /\ cli'[p].pc = "exit" /\ "out" \in DOMAIN cli'[p]) =>
                /\ \A k \in DOMAIN cli'[p].out : ~cli'[p].out[k].isDeleted
                /\ Len(cli'[p].out) = Cardinality(Active(readCanvas.elements))
                /\ \A m \in Active(readCanvas.elements) :
                      \E k \in DOMAIN cli'[p].out : cli'[p].out[k] = readCanvas.elements[m]]_vars

\* two rectangles were added without an id and stored under the ids "r1" and
\* "r2", then "r1" was deleted: it is still in the file and at session s1,
\* deleted and at version 2, "r2" is as it was; the fingerprint at s1 is (1,1)
\* and read-elements has printed "r2" alone
C27_Witness ==
    LET gone == Spread(Norm("r1"), [isDeleted |-> TRUE, version |-> 2]) IN
    /\ cli["p1"] = ExitedWith(0, <<Norm("r2")>>)
    /\ file = Stringify(DocOf(<<gone, Norm("r2")>>))
    /\ scene["s1"] = <<gone, Norm("r2")>>
    /\ lastRemoteFingerprint["s1"] = <<1, 1>>

-----------------------------------------------------------------------------
(* The initial state on connection: claims. *)

\* the step is session s handling the oldest message the relay sent it
IsOnMessage(s) ==
    s \in clients /\ s \in clients' /\ inbox[s] # << >> /\ inbox'[s] = Tail(inbox[s])

\* C28: the initial state comes first.  A session that is not connected has no
\* message of the relay in flight; when it connects, the only message in flight
\* to it is a scene-update with the canvas the file holds at that time; later
\* messages queue up behind it and it is handled first; handling a scene-update,
\* the session applies its elements and records their fingerprint; and applying
\* it is not reported back: where element "a" at version 1 comes from the
\* initial state only, a report of it sends nothing.
C28_InitialStateFirst ==
    [][\A s \in Sessions :
          /\ s \notin clients => inbox[s] = << >>
          /\ (s \notin clients /\ s \in clients') =>
                inbox'[s] = <<SceneUpdate(readCanvas)>>
          /\ (s \in clients /\ s \in clients') =>
                \/ inbox'[s] = inbox[s]
                \/ IsOnMessage(s)
                \/ /\ Len(inbox'[s]) = Len(inbox[s]) + 1
                   /\ SubSeq(inbox'[s], 1, Len(inbox[s])) = inbox[s]
          /\ (IsOnMessage(s) /\ Parse(Head(inbox[s])).type = "scene-update") =>
                LET els == Parse(Head(inbox[s])).data.elements
                IN /\ scene'[s] = els
                   /\ lastRemoteFingerprint'[s] = sceneFingerprint(els)
          /\ (sendUpdate(s) /\ args[s] = A1) => outbox'[s] = outbox[s]]_vars
=============================================================================
